---- MODULE Spec2Model ----
(***************************************************************************)
(* PCI Status / Command register views of src/src/register.rs.             *)
(*                                                                         *)
(* An unsigned integer of width W is the function [0..W-1 -> BOOLEAN] of   *)
(* its bits (bit 0 is the least significant).  The bit_field::BitField     *)
(* operations the source calls are written over that representation with   *)
(* the shifts and masks the crate uses.                                    *)
(***************************************************************************)
EXTENDS Integers, FiniteSets, Sequences, TLC

VARIABLES
    pc,        \* position of the calling code
    tfValue,   \* u8 handed to DevselTiming::try_from
    decoded,   \* result of DevselTiming::try_from
    stValue,   \* u16 handed to StatusRegister::new
    status,    \* StatusRegister.0
    timing,    \* result of StatusRegister::devsel_timing
    raw,       \* u16 handed to CommandRegister::from_u16
    cmd,       \* CommandRegister.0
    acc,       \* CommandRegisterBuilder.0
    origin,    \* how the builder was obtained: "default" or "seeded"
    op,        \* the setter called last
    arg,       \* the boolean passed to it
    ncalls,    \* number of setter calls made on the builder
    called,    \* setters called so far
    lastArg,   \* last boolean passed to each setter
    seed,      \* the 32-bit image as the caller supplied it
    image,     \* the caller-owned 32-bit image (data: &mut u32)
    writes,    \* number of write_info calls on the image
    reread     \* CommandRegister read back from the low half of the image

vars == <<pc, tfValue, decoded, stValue, status, timing, raw, cmd, acc, origin, op, arg,
          ncalls, called, lastArg, seed, image, writes, reread>>

statusVars == <<stValue, status, timing>>
devselVars == <<tfValue, decoded>>
builderVars == <<raw, cmd, acc, origin, op, arg, ncalls, called, lastArg>>
imageVars == <<seed, image, writes, reread>>

----------------------------------------------------------------------------
(* Bounds *)

MaxCalls == 3     \* setter calls made on one builder
MaxWrites == 2    \* write_info calls made on one image

----------------------------------------------------------------------------
(* Fixed-width unsigned integers as bit vectors *)

U8 == [0..7 -> BOOLEAN]
U16 == [0..15 -> BOOLEAN]
U32 == [0..31 -> BOOLEAN]

ToBits(n, W) == [i \in 0..(W - 1) |-> (n \div (2 ^ i)) % 2 = 1]

BIT_LENGTH(b) == Cardinality(DOMAIN b)

Zero(b) == [i \in DOMAIN b |-> FALSE]
One(b) == [i \in DOMAIN b |-> i = 0]
Not(b) == [i \in DOMAIN b |-> ~b[i]]
And(a, b) == [i \in DOMAIN a |-> a[i] /\ b[i]]
Or(a, b) == [i \in DOMAIN a |-> a[i] \/ b[i]]
Shl(b, k) == [i \in DOMAIN b |-> i >= k /\ b[i - k]]
Shr(b, k) == [i \in DOMAIN b |-> (i + k) \in DOMAIN b /\ b[i + k]]

as_u8(b) == [i \in 0..7 |-> i \in DOMAIN b /\ b[i]]
as_u16(b) == [i \in 0..15 |-> i \in DOMAIN b /\ b[i]]
as_u32(b) == [i \in 0..31 |-> i \in DOMAIN b /\ b[i]]

(* BitField::get_bit: the value masked with 1 << bit is non-zero *)
get_bit(self, bit) == And(self, Shl(One(self), bit)) # Zero(self)

(* BitField::get_bits over the half-open range start..end *)
get_bits(self, start, end) ==
    Shr(Shr(Shl(self, BIT_LENGTH(self) - end), BIT_LENGTH(self) - end), start)

set_bit_stuck(self, bit, value) == Or(self, Shl(One(self), bit))

(* BitField::set_bit *)
set_bit(self, bit, value) ==
    IF value THEN Or(self, Shl(One(self), bit))
             ELSE And(self, Not(Shl(One(self), bit)))

(* BitField::set_bits over the half-open range start..end *)
set_bits(self, start, end, value) ==
    LET W == BIT_LENGTH(self)
        bitmask == Not(Shl(Shr(Shr(Shl(Not(Zero(self)), W - end), W - end), start), start))
    IN  Or(And(self, bitmask), Shl(value, start))

----------------------------------------------------------------------------
(* DevselTiming *)

try_from_masked(value) ==
    CASE value = ToBits(0, 8) -> "Fast"
      [] value = ToBits(1, 8) -> "Medium"
      [] value = ToBits(2, 8) -> "Slow"
      [] OTHER -> "Slow"

(* impl TryFrom<u8> for DevselTiming; "Err" is Err(()) *)
DevselTiming_try_from(value) ==
    CASE value = ToBits(0, 8) -> "Fast"
      [] value = ToBits(1, 8) -> "Medium"
      [] value = ToBits(2, 8) -> "Slow"
      [] OTHER -> "Err"

----------------------------------------------------------------------------
(* StatusRegister *)

StatusRegister_new(value) == value

StatusRegister_parity_error_detected(self) == get_bit(self, 15)
StatusRegister_signalled_system_error(self) == get_bit(self, 14)
StatusRegister_received_master_abort(self) == get_bit(self, 13)
StatusRegister_received_target_abort(self) == get_bit(self, 12)
StatusRegister_signalled_target_abort(self) == get_bit(self, 11)

devsel_timing_wide(self) == DevselTiming_try_from(as_u8(get_bits(self, 9, 12)))

StatusRegister_devsel_timing(self) ==
    LET bits == get_bits(self, 9, 11)
    IN  DevselTiming_try_from(as_u8(bits))

StatusRegister_master_data_parity_error(self) == get_bit(self, 8)
StatusRegister_fast_back_to_back_capable(self) == get_bit(self, 7)

capable_66mhz_bit6(self) == get_bit(self, 6)

StatusRegister_capable_66mhz(self) == get_bit(self, 5)
StatusRegister_has_capability_list(self) == get_bit(self, 4)
StatusRegister_interrupt_status(self) == get_bit(self, 3)

----------------------------------------------------------------------------
(* CommandRegister *)

CommandRegister_from_u16(data) == data

write_info_byte(self, data) ==
    LET d1 == set_bits(data, 8, 11, as_u32(get_bits(self, 8, 11)))
    IN  set_bits(d1, 0, 8, as_u32(get_bits(self, 0, 8)))

write_info_low_only(self, data) ==
    set_bits(data, 0, 7, as_u32(get_bits(self, 0, 7)))

(* the inclusive ranges 8..=10 and 0..=6 are the half-open 8..11 and 0..7 *)
CommandRegister_write_info(self, data) ==
    LET d1 == set_bits(data, 8, 11, as_u32(get_bits(self, 8, 11)))
    IN  set_bits(d1, 0, 7, as_u32(get_bits(self, 0, 7)))

builder_masked(self) ==
    [i \in DOMAIN self |-> i \in ((0..6) \cup (8..10)) /\ self[i]]

CommandRegister_builder(self) == self

interrupts_disabled_bit11(self) == get_bit(self, 11)

CommandRegister_interrupts_disabled(self) == get_bit(self, 10)
CommandRegister_fast_back_to_back_enabled(self) == get_bit(self, 9)
CommandRegister_serr_enabled(self) == get_bit(self, 8)
CommandRegister_parity_error_response(self) == get_bit(self, 6)
CommandRegister_vga_palette_snoop(self) == get_bit(self, 5)
CommandRegister_memory_write_and_invalidate_enabled(self) == get_bit(self, 4)
CommandRegister_monitor_special_cycles(self) == get_bit(self, 3)
CommandRegister_bus_mastering_enabled(self) == get_bit(self, 2)
CommandRegister_memory_space_access_enabled(self) == get_bit(self, 1)
CommandRegister_io_space_access_enabled(self) == get_bit(self, 0)

----------------------------------------------------------------------------
(* CommandRegisterBuilder *)

CommandRegisterBuilder_default == ToBits(0, 16)

CommandRegisterBuilder_interrupt_disable(self, disable) == set_bit(self, 10, disable)
CommandRegisterBuilder_fast_back_to_back_enable(self, enable) == set_bit(self, 9, enable)
CommandRegisterBuilder_serr_enable(self, enable) == set_bit(self, 8, enable)

parity_error_response_bit7(self, response) == set_bit(self, 7, response)

CommandRegisterBuilder_parity_error_response(self, response) == set_bit(self, 6, response)
CommandRegisterBuilder_vga_palette_snoop(self, snoop) == set_bit(self, 5, snoop)
CommandRegisterBuilder_memory_write_and_invalidate_enable(self, enable) ==
    set_bit(self, 4, enable)
CommandRegisterBuilder_monitor_special_cycles(self, cycles) == set_bit(self, 3, cycles)

bus_mastering_bit1(self, mastering) == set_bit(self, 1, mastering)

CommandRegisterBuilder_bus_mastering(self, mastering) == set_bit(self, 2, mastering)
CommandRegisterBuilder_memory_space_access(self, access) == set_bit(self, 1, access)
CommandRegisterBuilder_io_space_access(self, access) == set_bit(self, 0, access)

CommandRegisterBuilder_build(self) == self

----------------------------------------------------------------------------
(* Inputs the callers hand in *)

Image(hi, lo) ==
    [i \in 0..31 |-> IF i < 16 THEN ToBits(lo, 16)[i] ELSE ToBits(hi, 16)[i - 16]]

(* raw Command values a builder is seeded from *)
RawSamples == {ToBits(n, 16) : n \in {0, 128, 1543, 63616, 65535, 21845, 43690}}

(* Command values written into an image: every pattern of bits 0..11,
   bits 12..15 following bit 11 *)
CmdSamples == {c \in U16 : \A j \in 12..15 : c[j] = c[11]}

(* Command/Status doublewords: <<Status half, Command half>> *)
ImageSamples ==
    {Image(p[1], p[2]) : p \in {<<0, 0>>, <<65535, 65535>>, <<43690, 43690>>,
                                <<21845, 21845>>, <<65535, 0>>, <<0, 65535>>,
                                <<0, 128>>, <<32768, 1919>>, <<4660, 63616>>}}

Fields == {"interrupt_disable", "fast_back_to_back_enable", "serr_enable",
           "parity_error_response", "vga_palette_snoop",
           "memory_write_and_invalidate_enable", "monitor_special_cycles",
           "bus_mastering", "memory_space_access", "io_space_access"}

----------------------------------------------------------------------------
(* State machine *)

Init ==
    /\ pc = "start"
    /\ tfValue = ToBits(0, 8)
    /\ decoded = "none"
    /\ stValue = ToBits(0, 16)
    /\ status = ToBits(0, 16)
    /\ timing = "none"
    /\ raw = ToBits(0, 16)
    /\ cmd = ToBits(0, 16)
    /\ acc = ToBits(0, 16)
    /\ origin = "none"
    /\ op = "none"
    /\ arg = FALSE
    /\ ncalls = 0
    /\ called = {}
    /\ lastArg = [f \in Fields |-> FALSE]
    /\ seed = Image(0, 0)
    /\ image = Image(0, 0)
    /\ writes = 0
    /\ reread = ToBits(0, 16)

(* DevselTiming::try_from(value) *)
TryFrom ==
    /\ pc = "start"
    /\ \E v \in U8 :
          /\ tfValue' = v
          /\ decoded' = DevselTiming_try_from(v)
    /\ pc' = "tried"
    /\ UNCHANGED <<statusVars, builderVars, imageVars>>

(* StatusRegister::new(value) *)
NewStatus ==
    /\ pc = "start"
    /\ \E v \in U16 :
          /\ stValue' = v
          /\ status' = StatusRegister_new(v)
    /\ pc' = "status"
    /\ UNCHANGED <<timing, devselVars, builderVars, imageVars>>

(* status.devsel_timing() *)
ReadDevselTiming ==
    /\ pc = "status"
    /\ timing' = StatusRegister_devsel_timing(status)
    /\ pc' = "timed"
    /\ UNCHANGED <<stValue, status, devselVars, builderVars, imageVars>>

(* CommandRegister::from_u16(data), data drawn from S *)
FromU16(S, from, to) ==
    /\ pc = from
    /\ \E data \in S :
          /\ raw' = data
          /\ cmd' = CommandRegister_from_u16(data)
    /\ pc' = to
    /\ UNCHANGED <<acc, origin, op, arg, ncalls, called, lastArg>>
    /\ UNCHANGED <<devselVars, statusVars, imageVars>>

ReadCommand == FromU16(RawSamples, "start", "register")
ReadAnyCommand == FromU16(U16, "start", "register")
ReadCommandForImage == FromU16(CmdSamples, "image", "ready")

(* CommandRegisterBuilder::default() *)
DefaultBuilder ==
    /\ pc = "start"
    /\ acc' = CommandRegisterBuilder_default
    /\ origin' = "default"
    /\ pc' = "accumulating"
    /\ UNCHANGED <<raw, cmd, op, arg, ncalls, called, lastArg>>
    /\ UNCHANGED <<devselVars, statusVars, imageVars>>

(* cmd.builder() *)
Builder ==
    /\ pc = "register"
    /\ acc' = CommandRegister_builder(cmd)
    /\ origin' = "seeded"
    /\ pc' = "accumulating"
    /\ UNCHANGED <<raw, cmd, op, arg, ncalls, called, lastArg>>
    /\ UNCHANGED <<devselVars, statusVars, imageVars>>

(* one setter call on the builder: name is the setter, b its argument, and
   result the accumulator the setter leaves *)
SetterCall(name, b, result) ==
    /\ pc = "accumulating"
    /\ ncalls < MaxCalls
    /\ acc' = result
    /\ op' = name
    /\ arg' = b
    /\ ncalls' = ncalls + 1
    /\ called' = called \cup {name}
    /\ lastArg' = [lastArg EXCEPT ![name] = b]
    /\ UNCHANGED <<pc, raw, cmd, origin>>
    /\ UNCHANGED <<devselVars, statusVars, imageVars>>

InterruptDisable ==
    \E b \in BOOLEAN :
        SetterCall("interrupt_disable", b, CommandRegisterBuilder_interrupt_disable(acc, b))
FastBackToBackEnable ==
    \E b \in BOOLEAN :
        SetterCall("fast_back_to_back_enable", b,
                   CommandRegisterBuilder_fast_back_to_back_enable(acc, b))
SerrEnable ==
    \E b \in BOOLEAN :
        SetterCall("serr_enable", b, CommandRegisterBuilder_serr_enable(acc, b))
ParityErrorResponse ==
    \E b \in BOOLEAN :
        SetterCall("parity_error_response", b,
                   CommandRegisterBuilder_parity_error_response(acc, b))
VgaPaletteSnoop ==
    \E b \in BOOLEAN :
        SetterCall("vga_palette_snoop", b, CommandRegisterBuilder_vga_palette_snoop(acc, b))
MemoryWriteAndInvalidateEnable ==
    \E b \in BOOLEAN :
        SetterCall("memory_write_and_invalidate_enable", b,
                   CommandRegisterBuilder_memory_write_and_invalidate_enable(acc, b))
MonitorSpecialCycles ==
    \E b \in BOOLEAN :
        SetterCall("monitor_special_cycles", b,
                   CommandRegisterBuilder_monitor_special_cycles(acc, b))
BusMastering ==
    \E b \in BOOLEAN :
        SetterCall("bus_mastering", b, CommandRegisterBuilder_bus_mastering(acc, b))
MemorySpaceAccess ==
    \E b \in BOOLEAN :
        SetterCall("memory_space_access", b,
                   CommandRegisterBuilder_memory_space_access(acc, b))
IoSpaceAccess ==
    \E b \in BOOLEAN :
        SetterCall("io_space_access", b, CommandRegisterBuilder_io_space_access(acc, b))

(* builder.build() *)
Build ==
    /\ pc = "accumulating"
    /\ cmd' = CommandRegisterBuilder_build(acc)
    /\ pc' = "finalized"
    /\ UNCHANGED <<raw, acc, origin, op, arg, ncalls, called, lastArg>>
    /\ UNCHANGED <<devselVars, statusVars, imageVars>>

(* the caller reads the Command/Status doubleword it will write back *)
SupplyImage ==
    /\ pc = "start"
    /\ \E s \in ImageSamples :
          /\ seed' = s
          /\ image' = s
    /\ pc' = "image"
    /\ UNCHANGED <<writes, reread, devselVars, statusVars, builderVars>>

(* cmd.write_info(&mut image) *)
WriteInfo ==
    /\ pc \in {"ready", "written"}
    /\ writes < MaxWrites
    /\ image' = CommandRegister_write_info(cmd, image)
    /\ writes' = writes + 1
    /\ pc' = "written"
    /\ UNCHANGED <<seed, reread, devselVars, statusVars, builderVars>>

(* CommandRegister::from_u16(image as u16) *)
ReadBack ==
    /\ pc = "written"
    /\ reread' = CommandRegister_from_u16(as_u16(image))
    /\ pc' = "reread"
    /\ UNCHANGED <<seed, image, writes, devselVars, statusVars, builderVars>>

(* building a Command register *)
Next ==
    \/ ReadCommand
    \/ DefaultBuilder
    \/ Builder
    \/ InterruptDisable
    \/ FastBackToBackEnable
    \/ SerrEnable
    \/ ParityErrorResponse
    \/ VgaPaletteSnoop
    \/ MemoryWriteAndInvalidateEnable
    \/ MonitorSpecialCycles
    \/ BusMastering
    \/ MemorySpaceAccess
    \/ IoSpaceAccess
    \/ Build

Spec == Init /\ [][Next]_vars

(* decoding any raw Command value and passing it through a builder untouched *)
NextRoundTrip ==
    \/ ReadAnyCommand
    \/ Builder
    \/ Build

SpecRoundTrip == Init /\ [][NextRoundTrip]_vars

(* decoding a Status register *)
NextStatus ==
    \/ NewStatus
    \/ ReadDevselTiming

SpecStatus == Init /\ [][NextStatus]_vars

(* decoding a timing code *)
NextDevsel == TryFrom

SpecDevsel == Init /\ [][NextDevsel]_vars

(* writing a Command register into the Command/Status doubleword *)
NextWrite ==
    \/ SupplyImage
    \/ ReadCommandForImage
    \/ WriteInfo
    \/ ReadBack

SpecWrite == Init /\ [][NextWrite]_vars

----------------------------------------------------------------------------
(* Properties *)

CommandFieldBits == (0..6) \cup (8..10)
ReservedBits16 == {7} \cup (11..15)

(* the bit each setter owns *)
FieldBit(f) ==
    CASE f = "interrupt_disable" -> 10
      [] f = "fast_back_to_back_enable" -> 9
      [] f = "serr_enable" -> 8
      [] f = "parity_error_response" -> 6
      [] f = "vga_palette_snoop" -> 5
      [] f = "memory_write_and_invalidate_enable" -> 4
      [] f = "monitor_special_cycles" -> 3
      [] f = "bus_mastering" -> 2
      [] f = "memory_space_access" -> 1
      [] f = "io_space_access" -> 0

(* the accessor that reads back what setter f wrote *)
ReadField(f, reg) ==
    CASE f = "interrupt_disable" -> CommandRegister_interrupts_disabled(reg)
      [] f = "fast_back_to_back_enable" -> CommandRegister_fast_back_to_back_enabled(reg)
      [] f = "serr_enable" -> CommandRegister_serr_enabled(reg)
      [] f = "parity_error_response" -> CommandRegister_parity_error_response(reg)
      [] f = "vga_palette_snoop" -> CommandRegister_vga_palette_snoop(reg)
      [] f = "memory_write_and_invalidate_enable" ->
             CommandRegister_memory_write_and_invalidate_enabled(reg)
      [] f = "monitor_special_cycles" -> CommandRegister_monitor_special_cycles(reg)
      [] f = "bus_mastering" -> CommandRegister_bus_mastering_enabled(reg)
      [] f = "memory_space_access" -> CommandRegister_memory_space_access_enabled(reg)
      [] f = "io_space_access" -> CommandRegister_io_space_access_enabled(reg)

(* C1: after write_info(C, S), bit 7 and bits 11-31 of the image are the bits
   of the seed image S, and bits 0-6 and 8-10 are the same-numbered bits of
   C's raw value. *)
C1_WriteInfoFrame ==
    (pc \in {"written", "reread"}) =>
        /\ \A i \in (0..31) \ CommandFieldBits : image[i] = seed[i]
        /\ \A i \in CommandFieldBits : image[i] = cmd[i]

C1_Witness ==
    /\ pc = "written"
    /\ writes = 1
    /\ image # seed
    /\ seed[7] /\ ~cmd[7]
    /\ seed[15] /\ ~cmd[15]
    /\ seed[31] /\ ~seed[16]
    /\ seed[1] /\ ~cmd[1]
    /\ cmd[10] /\ ~seed[10]

(* C2 as stated: in every state of a builder, however obtained, bit 7 and
   bits 11-15 of the accumulator are zero. *)
C2_ReservedBitsZero ==
    (pc = "accumulating") => \A j \in ReservedBits16 : ~acc[j]

(* C2 as amended: in every state of a builder, bit 7 and bits 11-15 of the
   accumulator have the value the builder was created with: zero for a
   default builder, the seeding register's bits for one from builder(). *)
C2_ReservedBitsKept ==
    (pc = "accumulating") =>
        \A j \in ReservedBits16 : acc[j] = (origin = "seeded" /\ raw[j])

C2_Witness ==
    /\ pc = "accumulating"
    /\ origin = "seeded"
    /\ ncalls >= 2
    /\ acc[7] /\ acc[15]
    /\ acc # raw

(* C3: the register built from a default builder reports, for each field,
   the last value passed to that field's setter, and false for a field whose
   setter was never called; it is a function of the last values only, so the
   order of calls to different setters does not matter. *)
C3_BuildReportsLastValues ==
    (pc = "finalized" /\ origin = "default") =>
        \A f \in Fields : ReadField(f, cmd) = (f \in called /\ lastArg[f])

C3_Witness ==
    /\ pc = "finalized"
    /\ origin = "default"
    /\ ncalls >= 3
    /\ Cardinality(called) = 2
    /\ \E f \in called : ~lastArg[f]
    /\ \E f \in called : lastArg[f]

(* C4: from_u16(raw).builder().build() with no setter called yields a register
   whose raw value is raw, all 16 bits, and whose ten accessors agree with
   those of from_u16(raw). *)
C4_RoundTrip ==
    (pc = "finalized" /\ origin = "seeded" /\ ncalls = 0) =>
        /\ \A i \in 0..15 : cmd[i] = raw[i]
        /\ \A f \in Fields : ReadField(f, cmd) = ReadField(f, CommandRegister_from_u16(raw))

C4_Witness ==
    /\ pc = "finalized"
    /\ origin = "seeded"
    /\ ncalls = 0
    /\ raw[7] /\ raw[15] /\ raw[11] /\ raw[0] /\ ~raw[1]
    /\ cmd[7]

(* C5: try_from maps 0 to Fast, 1 to Medium, 2 to Slow, and gives the error
   value for 3 and for every other u8. *)
C5_TryFromTable ==
    (pc = "tried") =>
        /\ (tfValue = ToBits(0, 8)) <=> (decoded = "Fast")
        /\ (tfValue = ToBits(1, 8)) <=> (decoded = "Medium")
        /\ (tfValue = ToBits(2, 8)) <=> (decoded = "Slow")
        /\ ((tfValue[0] /\ tfValue[1]) \/ (\E i \in 2..7 : tfValue[i]))
              <=> (decoded = "Err")
        /\ decoded \in {"Fast", "Medium", "Slow", "Err"}

C5_Witness ==
    /\ pc = "tried"
    /\ tfValue = ToBits(3, 8)
    /\ decoded = "Err"

(* C6: each boolean accessor of StatusRegister::new(v) returns its assigned
   bit of v; being equal to that bit for every v, it depends on no other. *)
C6_StatusAccessors ==
    (pc \in {"status", "timed"}) =>
        /\ StatusRegister_parity_error_detected(status) = stValue[15]
        /\ StatusRegister_signalled_system_error(status) = stValue[14]
        /\ StatusRegister_received_master_abort(status) = stValue[13]
        /\ StatusRegister_received_target_abort(status) = stValue[12]
        /\ StatusRegister_signalled_target_abort(status) = stValue[11]
        /\ StatusRegister_master_data_parity_error(status) = stValue[8]
        /\ StatusRegister_fast_back_to_back_capable(status) = stValue[7]
        /\ StatusRegister_capable_66mhz(status) = stValue[5]
        /\ StatusRegister_has_capability_list(status) = stValue[4]
        /\ StatusRegister_interrupt_status(status) = stValue[3]

C6_Witness ==
    /\ pc = "status"
    /\ stValue[5] /\ ~stValue[6] /\ ~stValue[4]
    /\ stValue[15] /\ ~stValue[14]
    /\ StatusRegister_capable_66mhz(status)

(* C7: devsel_timing is Fast when bits 9 and 10 are clear, Medium when only
   bit 9 is set, Slow when only bit 10 is set, and the error value when both
   are set, whatever the other bits; 0b1000_0010_0000_0000 gives Medium and
   parity_error_detected. *)
C7_DevselTimingBits ==
    (pc = "timed") =>
        /\ timing = (CASE ~stValue[9] /\ ~stValue[10] -> "Fast"
                       [] stValue[9] /\ ~stValue[10] -> "Medium"
                       [] ~stValue[9] /\ stValue[10] -> "Slow"
                       [] stValue[9] /\ stValue[10] -> "Err")
        /\ (stValue = ToBits(33280, 16)) =>
              (timing = "Medium" /\ StatusRegister_parity_error_detected(status))

C7_Witness ==
    /\ pc = "timed"
    /\ stValue[9] /\ stValue[10] /\ stValue[11] /\ stValue[8]
    /\ timing = "Err"

(* C8: each accessor of from_u16(raw) returns its assigned bit of raw; raw
   0b0000_0110_0000_0111 reads true for io_space_access_enabled,
   memory_space_access_enabled, bus_mastering_enabled,
   fast_back_to_back_enabled and interrupts_disabled, false for the rest. *)
C8_CommandAccessors ==
    (pc = "register") =>
        /\ CommandRegister_interrupts_disabled(cmd) = raw[10]
        /\ CommandRegister_fast_back_to_back_enabled(cmd) = raw[9]
        /\ CommandRegister_serr_enabled(cmd) = raw[8]
        /\ CommandRegister_parity_error_response(cmd) = raw[6]
        /\ CommandRegister_vga_palette_snoop(cmd) = raw[5]
        /\ CommandRegister_memory_write_and_invalidate_enabled(cmd) = raw[4]
        /\ CommandRegister_monitor_special_cycles(cmd) = raw[3]
        /\ CommandRegister_bus_mastering_enabled(cmd) = raw[2]
        /\ CommandRegister_memory_space_access_enabled(cmd) = raw[1]
        /\ CommandRegister_io_space_access_enabled(cmd) = raw[0]
        /\ (raw = ToBits(1543, 16)) =>
              /\ CommandRegister_io_space_access_enabled(cmd)
              /\ CommandRegister_memory_space_access_enabled(cmd)
              /\ CommandRegister_bus_mastering_enabled(cmd)
              /\ CommandRegister_fast_back_to_back_enabled(cmd)
              /\ CommandRegister_interrupts_disabled(cmd)
              /\ ~CommandRegister_serr_enabled(cmd)
              /\ ~CommandRegister_parity_error_response(cmd)
              /\ ~CommandRegister_vga_palette_snoop(cmd)
              /\ ~CommandRegister_memory_write_and_invalidate_enabled(cmd)
              /\ ~CommandRegister_monitor_special_cycles(cmd)

C8_Witness ==
    /\ pc = "register"
    /\ raw = ToBits(1543, 16)
    /\ CommandRegister_interrupts_disabled(cmd)
    /\ ~CommandRegister_serr_enabled(cmd)

(* C9: a setter called with b makes its own bit of the accumulator equal to
   b and leaves the other 15 bits as they were. *)
C9_SetterFrame ==
    [][(pc = "accumulating" /\ ncalls' = ncalls + 1) =>
          /\ acc'[FieldBit(op')] = arg'
          /\ \A j \in (0..15) \ {FieldBit(op')} : acc'[j] = acc[j]]_vars

C9_Witness ==
    /\ pc = "accumulating"
    /\ origin = "seeded"
    /\ ncalls = 1
    /\ op = "bus_mastering"
    /\ arg = FALSE
    /\ raw[2] /\ ~acc[2]
    /\ acc[7] /\ acc[1] /\ acc[3]

(* C10: after write_info(C, S) the register read back from the low 16 bits
   of the image agrees with C on all ten accessors, and a further
   write_info with the same C leaves the image unchanged. *)
C10_ReadModifyWrite ==
    /\ [](pc = "reread" => \A f \in Fields : ReadField(f, reread) = ReadField(f, cmd))
    /\ [][(writes >= 1 /\ writes' = writes + 1) => image' = image]_vars

C10_Witness ==
    /\ pc = "reread"
    /\ writes = 2
    /\ reread # cmd
    /\ reread[7] /\ ~cmd[7]
    /\ cmd[15] /\ ~reread[15]
    /\ cmd[8] /\ cmd[0] /\ ~seed[8] /\ ~seed[0]

====
